---- MODULE Spec2Model ----
(***************************************************************************)
(* Model of quote_app.py: the standard-options normaliser                  *)
(* (clean_standard_options), the optional-options grouper with embedded    *)
(* base-price extraction (group_optional_options), the discount            *)
(* resolution and price computation of the page script, and the re-grouping*)
(* of the selected upgrades done by QuotePDF.add_quote.                    *)
(*                                                                         *)
(* Descriptions are TLA+ strings handled character by character, so that   *)
(* the regular expressions, str.strip, str.split, str.lower and the        *)
(* substring tests are computed as Python computes them.                   *)
(* Money amounts are whole dollars and percentages whole numbers; the base *)
(* prices drawn are multiples of 100, so percent / 100 * base_price is     *)
(* exact.                                                                  *)
(***************************************************************************)
EXTENDS Integers, Sequences, FiniteSets, TLC

(***************************************************************************)
(* Characters and the Python string primitives the program uses.           *)
(***************************************************************************)
LowerLetters ==
    {"a","b","c","d","e","f","g","h","i","j","k","l","m",
     "n","o","p","q","r","s","t","u","v","w","x","y","z"}

UpperLetters ==
    {"A","B","C","D","E","F","G","H","I","J","K","L","M",
     "N","O","P","Q","R","S","T","U","V","W","X","Y","Z"}

Digits == {"0","1","2","3","4","5","6","7","8","9"}

\* str.lower on one character
LowerChar(c) ==
    CASE c = "A" -> "a" [] c = "B" -> "b" [] c = "C" -> "c" [] c = "D" -> "d"
      [] c = "E" -> "e" [] c = "F" -> "f" [] c = "G" -> "g" [] c = "H" -> "h"
      [] c = "I" -> "i" [] c = "J" -> "j" [] c = "K" -> "k" [] c = "L" -> "l"
      [] c = "M" -> "m" [] c = "N" -> "n" [] c = "O" -> "o" [] c = "P" -> "p"
      [] c = "Q" -> "q" [] c = "R" -> "r" [] c = "S" -> "s" [] c = "T" -> "t"
      [] c = "U" -> "u" [] c = "V" -> "v" [] c = "W" -> "w" [] c = "X" -> "x"
      [] c = "Y" -> "y" [] c = "Z" -> "z" [] OTHER -> c

\* the class \s of the re module, which is also what str.strip and str.split
\* treat as whitespace
IsSpace(c) == c \in {" ", "\t", "\n", "\r", "\f"}

\* the class \w of the re module
IsWordChar(c) == c \in LowerLetters \cup UpperLetters \cup Digits \cup {"_"}

CharAt(s, i) == SubSeq(s, i, i)

RECURSIVE Lower(_)
\* str.lower
Lower(s) == IF s = "" THEN "" ELSE LowerChar(Head(s)) \o Lower(Tail(s))

\* the Python test  k in s  on strings
Contains(s, k) ==
    \E i \in 1..(Len(s) - Len(k) + 1) : SubSeq(s, i, i + Len(k) - 1) = k

\* \b at the gap before position i of s (positions 1..Len(s)+1)
WordBoundary(s, i) ==
    LET before == i > 1 /\ IsWordChar(CharAt(s, i - 1))
        after  == i <= Len(s) /\ IsWordChar(CharAt(s, i))
    IN  before # after

\* r'\bnan\b' matches at position i of s; ignorecase is re.IGNORECASE
NanMatchAt(s, i, ignorecase) ==
    /\ i + 2 <= Len(s)
    /\ LET w == SubSeq(s, i, i + 2)
       IN  IF ignorecase THEN Lower(w) = "nan" ELSE w = "nan"
    /\ WordBoundary(s, i)
    /\ WordBoundary(s, i + 3)

RECURSIVE SubNanFrom(_, _, _)
SubNanFrom(s, i, ignorecase) ==
    IF i > Len(s) THEN ""
    ELSE IF NanMatchAt(s, i, ignorecase) THEN SubNanFrom(s, i + 3, ignorecase)
    ELSE CharAt(s, i) \o SubNanFrom(s, i + 1, ignorecase)

\* re.sub(r'\bnan\b', '', s, flags): left to right, non-overlapping
SubNan(s, ignorecase) == SubNanFrom(s, 1, ignorecase)

RECURSIVE CollapseFrom(_, _)
CollapseFrom(s, i) ==
    IF i > Len(s) THEN ""
    ELSE IF IsSpace(CharAt(s, i))
         THEN IF i > 1 /\ IsSpace(CharAt(s, i - 1))
              THEN CollapseFrom(s, i + 1)
              ELSE " " \o CollapseFrom(s, i + 1)
         ELSE CharAt(s, i) \o CollapseFrom(s, i + 1)

\* re.sub(r'\s+', ' ', s)
CollapseSpaces(s) == CollapseFrom(s, 1)

\* str.strip()
Strip(s) ==
    LET keep == {i \in 1..Len(s) : ~IsSpace(CharAt(s, i))}
    IN  IF keep = {} THEN ""
        ELSE LET lo == CHOOSE i \in keep : \A j \in keep : i <= j
                 hi == CHOOSE i \in keep : \A j \in keep : j <= i
             IN  SubSeq(s, lo, hi)

\* len(s.split()): the number of maximal runs of non-whitespace
WordCount(s) ==
    Cardinality({i \in 1..Len(s) :
                    /\ ~IsSpace(CharAt(s, i))
                    /\ (i = 1 \/ IsSpace(CharAt(s, i - 1)))})

(***************************************************************************)
(* clean_standard_options.  A raw value of the catalog is null, a string,  *)
(* or the float NaN that json.load yields for a bare NaN.                  *)
(***************************************************************************)
Null == [t |-> "null"]
NaNFloat == [t |-> "nan"]
Str(s) == [t |-> "str", v |-> s]

\* the truth value of a raw value: None and '' are falsy, NaN is truthy
Truthy(opt) == opt.t = "nan" \/ (opt.t = "str" /\ opt.v # "")

\* str(opt)
ToText(opt) == IF opt.t = "str" THEN opt.v ELSE IF opt.t = "nan" THEN "nan" ELSE "None"

\* the loop body with the "nan" removal done after the whitespace clean-up
CleanStandardText_NanRemovedLast(opt) ==
    SubNan(Strip(CollapseSpaces(ToText(opt))), TRUE)

\* the body of the loop for one truthy item: the text after both re.sub and strip
CleanStandardText(opt) == Strip(CollapseSpaces(SubNan(ToText(opt), TRUE)))

RECURSIVE clean_standard_options(_)
clean_standard_options(options) ==
    IF options = <<>> THEN <<>>
    ELSE LET opt  == Head(options)
             rest == clean_standard_options(Tail(options))
         IN  IF ~Truthy(opt) THEN rest
             ELSE LET text == CleanStandardText(opt)
                  IN  IF text # "" THEN <<text>> \o rest ELSE rest

(***************************************************************************)
(* group_optional_options.  The option items are dict objects that the     *)
(* function updates in place, and the lists it builds hold references to   *)
(* them: an item is a position in the heap `items` (a sequence of records  *)
(* [description, price]) and a list of options is a sequence of positions. *)
(***************************************************************************)
BasePriceThreshold == 100000
BasePriceMaxWords == 3

\* line 31 with the re.IGNORECASE flag of line 19
CleanDescription_IgnoreCase(description) == Strip(SubNan(description, TRUE))

\* line 31: the new value of opt['description']
CleanDescription(description) == Strip(SubNan(description, FALSE))

\* lines 30-34, the in-place update: the heap after the loop over options
CleanedItems(items, options) ==
    [i \in DOMAIN items |->
        IF \E k \in DOMAIN options : options[k] = i
        THEN [items[i] EXCEPT !.description = CleanDescription(@)]
        ELSE items[i]]

\* lines 32-34 without the test of line 32
KeepNonEmpty_NoSkip(items, options) == options

RECURSIVE KeepNonEmpty(_, _)
\* lines 32-34: the references whose cleaned description is not empty
KeepNonEmpty(items, options) ==
    IF options = <<>> THEN <<>>
    ELSE LET rest == KeepNonEmpty(items, Tail(options))
         IN  IF items[Head(options)].description = "" THEN rest
             ELSE <<Head(options)>> \o rest

\* lines 37-41 with >= for the > of line 40
IsEmbeddedBasePrice_AtThreshold(opt) ==
    \/ Contains(Lower(opt.description), "base price")
    \/ Contains(Lower(opt.description), "model")
    \/ (opt.price >= BasePriceThreshold /\ WordCount(opt.description) < BasePriceMaxWords)

\* lines 37-41: the test made on cleaned_options[0]
IsEmbeddedBasePrice(opt) ==
    \/ Contains(Lower(opt.description), "base price")
    \/ Contains(Lower(opt.description), "model")
    \/ (opt.price > BasePriceThreshold /\ WordCount(opt.description) < BasePriceMaxWords)

\* lines 46-60 with the Tool Storage branch tested first
CategoryOf_ToolStorageFirst(description) ==
    LET desc == Lower(description)
    IN  IF /\ Contains(desc, "tool")
           /\ (\/ Contains(desc, "storage")
               \/ Contains(desc, "magazine")
               \/ Contains(desc, "changer"))
        THEN "Tool Storage"
        ELSE IF Contains(desc, "spindle") THEN "Spindle Options"
        ELSE IF Contains(desc, "probe") \/ Contains(desc, "renishaw")
             THEN "Probing & Measurement"
        ELSE IF Contains(desc, "coolant") THEN "Coolant Systems"
        ELSE IF Contains(desc, "table") \/ Contains(desc, "pallet")
             THEN "Table & Pallet Systems"
        ELSE IF Contains(desc, "control") THEN "Control Options"
        ELSE "Other Options"

\* lines 46-60: the if/elif chain
CategoryOf(description) ==
    LET desc == Lower(description)
    IN  IF Contains(desc, "spindle") THEN "Spindle Options"
        ELSE IF Contains(desc, "probe") \/ Contains(desc, "renishaw")
             THEN "Probing & Measurement"
        ELSE IF Contains(desc, "coolant") THEN "Coolant Systems"
        ELSE IF Contains(desc, "table") \/ Contains(desc, "pallet")
             THEN "Table & Pallet Systems"
        ELSE IF /\ Contains(desc, "tool")
                /\ (\/ Contains(desc, "storage")
                    \/ Contains(desc, "magazine")
                    \/ Contains(desc, "changer"))
             THEN "Tool Storage"
        ELSE IF Contains(desc, "control") THEN "Control Options"
        ELSE "Other Options"

\* categories[name].append(ref) on a defaultdict(list): a dict keeps its keys
\* in the order of their first insertion
AppendTo(categories, name, ref) ==
    IF \E k \in DOMAIN categories : categories[k].name = name
    THEN [k \in DOMAIN categories |->
            IF categories[k].name = name
            THEN [categories[k] EXCEPT !.items = Append(@, ref)]
            ELSE categories[k]]
    ELSE Append(categories, [name |-> name, items |-> <<ref>>])

RECURSIVE Categorize(_, _, _)
\* lines 45-60
Categorize(items, options, categories) ==
    IF options = <<>> THEN categories
    ELSE Categorize(items, Tail(options),
                    AppendTo(categories, CategoryOf(items[Head(options)].description),
                             Head(options)))

\* lines 45-62, given the heap and the local cleaned_options as it is after
\* line 34, and whether the test of lines 37-41 succeeded: the heap after the
\* call, cleaned_options after line 34 and after line 43, whether lines 42-43
\* ran, and the two returned values
GroupResult(heap, cleaned, extract) ==
    LET remaining == IF extract THEN Tail(cleaned) ELSE cleaned
    IN  [items           |-> heap,
         cleaned_all     |-> cleaned,
         extracted       |-> extract,
         cleaned_options |-> remaining,
         categories      |-> Categorize(heap, remaining, <<>>),
         base_price      |-> IF extract THEN heap[Head(cleaned)].price ELSE 0]

\* lines 36-43, given the heap and cleaned_options after the loop of line 30
ExtractBasePrice(heap, cleaned) ==
    GroupResult(heap, cleaned,
                cleaned # <<>> /\ IsEmbeddedBasePrice(heap[Head(cleaned)]))

\* lines 32-34, given the heap after the in-place cleaning
FilterCleaned(heap, options) == ExtractBasePrice(heap, KeepNonEmpty(heap, options))

\* the whole call
group_optional_options(items, options) ==
    FilterCleaned(CleanedItems(items, options), options)

(***************************************************************************)
(* The page script, lines 109-155, as a function of the catalog entry of   *)
(* the selected machine and of the widget values.                          *)
(***************************************************************************)
\* the list machine_configs[machine_type]['optional_options']: every item
AllRefs(items) == [i \in 1..Len(items) |-> i]

Max(a, b) == IF a >= b THEN a ELSE b

\* lines 124-131 with the percent branch tested first
ResolveDiscount_PercentFirst(bp, desired, percent, flat, default) ==
    IF percent > 0 THEN (percent * bp) \div 100
    ELSE IF desired > 0 THEN Max(0, bp - desired)
    ELSE IF flat > 0 THEN flat
    ELSE default

\* lines 124-131
ResolveDiscount(bp, desired, percent, flat, default) ==
    IF desired > 0 THEN Max(0, bp - desired)
    ELSE IF percent > 0 THEN (percent * bp) \div 100
    ELSE IF flat > 0 THEN flat
    ELSE default

\* line 114
ChooseBasePrice(extracted, catalog_price) ==
    IF extracted > 0 THEN extracted ELSE catalog_price

\* line 146: the checkbox key of item i (counted from 0) of a group
CheckboxKey(group, i) == <<group, i>>

RECURSIVE SelectedFrom(_, _, _)
\* lines 145-148 for one group: the references whose checkbox is checked,
\* from item i (counted from 1) on
SelectedFrom(bucket, i, chk) ==
    IF i > Len(bucket.items) THEN <<>>
    ELSE IF CheckboxKey(bucket.name, i - 1) \in chk
         THEN <<bucket.items[i]>> \o SelectedFrom(bucket, i + 1, chk)
         ELSE SelectedFrom(bucket, i + 1, chk)

RECURSIVE SelectedAddons(_, _)
\* lines 142-148: selected_addons, in the order of the groups and of
\* their items
SelectedAddons(categories, chk) ==
    IF categories = <<>> THEN <<>>
    ELSE SelectedFrom(Head(categories), 1, chk) \o SelectedAddons(Tail(categories), chk)

\* line 149 with = for +=, taken once: only one upgrade is added
AddPrices_FirstOnly(price, items, selected) ==
    IF selected = <<>> THEN price ELSE price + items[Head(selected)].price

RECURSIVE AddPrices(_, _, _)
\* line 149, once per selected item: custom_price += opt['price']
AddPrices(price, items, selected) ==
    IF selected = <<>> THEN price
    ELSE AddPrices(price + items[Head(selected)].price, items, Tail(selected))

\* every checkbox key the page shows
ShownKeys(categories) ==
    UNION {{CheckboxKey(categories[k].name, i - 1) : i \in 1..Len(categories[k].items)}
              : k \in DOMAIN categories}

\* lines 86-96 of add_quote: the groups it prints, each line with the
\* description and the price of the item
PrintedGroups(items, categories) ==
    [k \in DOMAIN categories |->
        [name  |-> categories[k].name,
         lines |-> [i \in 1..Len(categories[k].items) |->
                       [ref         |-> categories[k].items[i],
                        description |-> items[categories[k].items[i]].description,
                        price       |-> items[categories[k].items[i]].price]]]]

\* QuotePDF.add_quote after its call of group_optional_options (line 89),
\* whose result is g: what the document shows
QuoteDocument(g, bp, disc, std_opts, selected_opts, total) ==
    [generated     |-> TRUE,
     items         |-> g.items,
     call          |-> g,
     base_price    |-> bp,
     discount      |-> disc,
     std_opts      |-> std_opts,
     selected_opts |-> selected_opts,
     upgrades      |-> PrintedGroups(g.items, g.categories),
     total         |-> total]

\* QuotePDF.add_quote, lines 71-99
add_quote(items, bp, disc, std_opts, selected_opts, total) ==
    QuoteDocument(group_optional_options(items, selected_opts),
                  bp, disc, std_opts, selected_opts, total)

\* no document was generated by this run
NoQuote == [generated |-> FALSE]

\* the script's variables at its end; doc is the document of lines 152-158
PageAfter(std, g, bp, disc, selected, custom, doc) ==
    [run                  |-> TRUE,
     standard_options     |-> std,
     items                |-> IF doc.generated THEN doc.items ELSE g.items,
     grouped_options      |-> g.categories,
     extracted_base_price |-> g.base_price,
     base_price           |-> bp,
     discount             |-> disc,
     selected_addons      |-> selected,
     custom_price         |-> custom,
     quote                |-> doc]

\* lines 152-155
GeneratePdf(button, std, g, bp, disc, selected, custom) ==
    PageAfter(std, g, bp, disc, selected, custom,
              IF button THEN add_quote(g.items, bp, disc, std, selected, custom)
              ELSE NoQuote)

\* lines 133-149
PriceUpgrades(button, std, g, bp, disc, selected) ==
    GeneratePdf(button, std, g, bp, disc, selected,
                AddPrices(bp - disc, g.items, selected))

\* lines 124-131 and 142-148
DiscountAndSelect(cfg, desired, percent, flat, chk, button, std, g, bp) ==
    PriceUpgrades(button, std, g, bp,
                  ResolveDiscount(bp, desired, percent, flat, cfg.discount),
                  SelectedAddons(g.categories, chk))

\* line 114
SelectBasePrice(cfg, desired, percent, flat, chk, button, std, g) ==
    DiscountAndSelect(cfg, desired, percent, flat, chk, button, std, g,
                      ChooseBasePrice(g.base_price, cfg.base_price))

\* one run of the script with the catalog entry cfg as json.load returns it,
\* the widget values, and whether the Generate button was pressed
ScriptRun(cfg, desired, percent, flat, chk, button) ==
    SelectBasePrice(cfg, desired, percent, flat, chk, button,
                    clean_standard_options(cfg.standard_options),
                    group_optional_options(cfg.optional_options,
                                           AllRefs(cfg.optional_options)))

(***************************************************************************)
(* Bounds and the inputs drawn.                                            *)
(***************************************************************************)
\* the longest raw standard option enumerated character by character
MaxRawLen == 4
\* the longest list of raw standard options
MaxStd == 1
\* the longest list of optional options of a catalog entry
MaxOpts == 2

RECURSIVE StringsUpTo(_, _)
StringsUpTo(chars, n) ==
    IF n = 0 THEN {""}
    ELSE LET shorter == StringsUpTo(chars, n - 1)
         IN  shorter \cup {s \o c : s \in shorter, c \in chars}

RECURSIVE ListsUpTo(_, _)
ListsUpTo(values, n) ==
    IF n = 0 THEN {<<>>}
    ELSE LET shorter == ListsUpTo(values, n - 1)
         IN  shorter \cup {Append(l, v) : l \in shorter, v \in values}

RawChars == {"n", "a", " "}

RawTexts ==
    StringsUpTo(RawChars, MaxRawLen)
        \cup {"banana", "foo nan bar", "NaN", "Nan a", "nan a", "a\tNAN\n b",
              "nan-nan", "x_nan", " Coolant  tank ", "nan\tnan"}

RawValues == {Null, NaNFloat} \cup {Str(s) : s \in RawTexts}

Item(d, p) == [description |-> d, price |-> p]

\* the option items of the catalogs given to the grouper on its own
GroupItemPool ==
    {Item("Model XYZ", 150000), Item("Model XYZ", 0), Item("4th Axis", 50000),
     Item("4th Axis", 150000), Item("tool storage magazine with spindle", 8000),
     Item("Base Price", 200000), Item("nan", 0), Item("NaN", 1000),
     Item("banana", 500), Item(" Renishaw Probe nan ", 12000),
     Item("Coolant Table", 7000), Item("Tool Changer 60", 150000),
     Item("Tool kit", 900), Item("Control pallet", 4000),
     Item("CONTROL Upgrade", 6000), Item("Big Spindle", 120000),
     Item("nan Remodel kit", 3000), Item("Probe  nan  coolant", 100000),
     Item("x nan", 100001), Item("Pallet tool magazine", 2500),
     Item("\tnan\t", 5), Item("nanometer scale", 700),
     Item("Through-spindle coolant", 9000)}

\* the option items of the catalogs of the whole page
QuoteItemPool ==
    {Item("Big Spindle", 120000), Item("Probe nan", 5000), Item("4th Axis", 3000)}

\* their standard options
QuoteStandardOptions == <<Null, NaNFloat, Str("banana"), Str(" foo nan  bar ")>>

\* their base_price and discount
CatalogPrices == {<<100000, 5000>>, <<200000, 0>>}

\* the values the three number_input widgets take
DesiredPrices == {0, 90000, 150000}
PercentDiscounts == {0, 50}
FlatDiscounts == {0, 10000}

Config(std, opts, bp, disc) ==
    [standard_options |-> std, optional_options |-> opts,
     base_price |-> bp, discount |-> disc]

EmptyConfig == Config(<<>>, <<>>, 0, 0)

(***************************************************************************)
(* State.                                                                  *)
(***************************************************************************)
VARIABLES
    std_raw,              \* a raw standard_options list
    std_once,             \* clean_standard_options(std_raw)
    std_twice,            \* clean_standard_options of that result
    norm_pc,              \* "raw", "once" or "twice"
    catalog,              \* machine_configs[machine_type] as json.load returns it
    items,                \* the option dicts, as the last call left them
    call,                 \* the last call of group_optional_options
    desired_price,        \* widget values, kept by the session
    percent_discount,
    flat_discount,
    checked,              \* keys of the checked checkboxes
    page                  \* the script's variables after its last run

normVars == <<std_raw, std_once, std_twice, norm_pc>>
widgetVars == <<desired_price, percent_discount, flat_discount, checked>>
vars == <<normVars, catalog, items, call, widgetVars, page>>

NoCall == [site |-> "none"]
NoPage == [run |-> FALSE]

NormIdle ==
    /\ std_raw = <<>> /\ std_once = <<>> /\ std_twice = <<>> /\ norm_pc = "raw"

WidgetDefaults ==
    /\ desired_price = 0 /\ percent_discount = 0 /\ flat_discount = 0
    /\ checked = {}

(***************************************************************************)
(* The normaliser on its own: a raw list is drawn, cleaned, and the result *)
(* cleaned again.                                                          *)
(***************************************************************************)
InitNorm ==
    /\ std_raw \in ListsUpTo(RawValues, MaxStd)
    /\ std_once = <<>> /\ std_twice = <<>> /\ norm_pc = "raw"
    /\ catalog = EmptyConfig /\ items = <<>> /\ call = NoCall
    /\ WidgetDefaults /\ page = NoPage

\* line 109
Normalize ==
    /\ norm_pc = "raw"
    /\ std_once' = clean_standard_options(std_raw)
    /\ norm_pc' = "once"
    /\ UNCHANGED <<std_raw, std_twice, catalog, items, call, widgetVars, page>>

\* the same function applied to the list it returned
NormalizeAgain ==
    /\ norm_pc = "once"
    /\ std_twice' = clean_standard_options([i \in 1..Len(std_once) |-> Str(std_once[i])])
    /\ norm_pc' = "twice"
    /\ UNCHANGED <<std_raw, std_once, catalog, items, call, widgetVars, page>>

NextNorm == Normalize \/ NormalizeAgain

SpecNorm == InitNorm /\ [][NextNorm]_vars

(***************************************************************************)
(* The grouper on its own: the call of line 113 on the whole list of a     *)
(* catalog entry, then the call of line 89 on a list of selected items.    *)
(***************************************************************************)
InitGroup ==
    /\ \E opts \in ListsUpTo(GroupItemPool, MaxOpts) :
          /\ catalog = Config(<<>>, opts, 0, 0)
          /\ items = opts
    /\ call = NoCall
    /\ NormIdle /\ WidgetDefaults /\ page = NoPage

CallRecord(site, before, options, g) ==
    [site |-> site, before |-> before, options |-> options, items |-> g.items,
     cleaned_all |-> g.cleaned_all, extracted |-> g.extracted,
     cleaned_options |-> g.cleaned_options, categories |-> g.categories,
     base_price |-> g.base_price]

\* line 113
GroupCatalog ==
    /\ call.site = "none"
    /\ LET g == group_optional_options(items, AllRefs(items))
       IN  /\ items' = g.items
           /\ call' = CallRecord("script", items, AllRefs(items), g)
    /\ UNCHANGED <<normVars, catalog, widgetVars, page>>

\* lines 142-148 and line 89: the checked items are collected and grouped again
GroupSelected ==
    /\ call.site = "script"
    /\ \E chk \in SUBSET ShownKeys(call.categories) :
          LET selected == SelectedAddons(call.categories, chk)
              g        == group_optional_options(items, selected)
          IN  /\ checked' = chk
              /\ items' = g.items
              /\ call' = CallRecord("add_quote", items, selected, g)
    /\ UNCHANGED <<normVars, catalog, desired_price, percent_discount, flat_discount,
                   page>>

NextGroup == GroupCatalog \/ GroupSelected

SpecGroup == InitGroup /\ [][NextGroup]_vars

(***************************************************************************)
(* The page: every interaction with a widget runs the script again, from   *)
(* the json.load of line 10 on, with the widget values of the session.     *)
(***************************************************************************)
QuoteConfigs ==
    {Config(QuoteStandardOptions, opts, p[1], p[2]) :
        opts \in ListsUpTo(QuoteItemPool, MaxOpts), p \in CatalogPrices}

\* a run of the script: its variables afterwards, and the option dicts
Rerun(desired, percent, flat, chk, button) ==
    /\ page' = ScriptRun(catalog, desired, percent, flat, chk, button)
    /\ items' = page'.items

\* the first run, with the widgets at their defaults
Init ==
    /\ catalog \in QuoteConfigs
    /\ NormIdle /\ WidgetDefaults
    /\ call = NoCall
    /\ page = ScriptRun(catalog, 0, 0, 0, {}, FALSE)
    /\ items = page.items

\* line 119
SetDesiredPrice ==
    /\ \E d \in DesiredPrices \ {desired_price} :
          /\ desired_price' = d
          /\ Rerun(d, percent_discount, flat_discount, checked, FALSE)
    /\ UNCHANGED <<normVars, catalog, call, percent_discount, flat_discount, checked>>

\* line 120
SetPercentDiscount ==
    /\ \E p \in PercentDiscounts \ {percent_discount} :
          /\ percent_discount' = p
          /\ Rerun(desired_price, p, flat_discount, checked, FALSE)
    /\ UNCHANGED <<normVars, catalog, call, desired_price, flat_discount, checked>>

\* line 121
SetFlatDiscount ==
    /\ \E f \in FlatDiscounts \ {flat_discount} :
          /\ flat_discount' = f
          /\ Rerun(desired_price, percent_discount, f, checked, FALSE)
    /\ UNCHANGED <<normVars, catalog, call, desired_price, percent_discount, checked>>

\* line 147: a checkbox of the page is ticked or unticked
ToggleUpgrade ==
    /\ \E key \in ShownKeys(page.grouped_options) :
          LET chk == IF key \in checked THEN checked \ {key} ELSE checked \cup {key}
          IN  /\ checked' = chk
              /\ Rerun(desired_price, percent_discount, flat_discount, chk, FALSE)
    /\ UNCHANGED <<normVars, catalog, call, desired_price, percent_discount,
                   flat_discount>>

\* lines 152-158: the Generate button
GenerateQuote ==
    /\ Rerun(desired_price, percent_discount, flat_discount, checked, TRUE)
    /\ UNCHANGED <<normVars, catalog, call, widgetVars>>

Next ==
    \/ SetDesiredPrice
    \/ SetPercentDiscount
    \/ SetFlatDiscount
    \/ ToggleUpgrade
    \/ GenerateQuote

Spec == Init /\ [][Next]_vars

(***************************************************************************)
(* Properties of group_optional_options, stated on its last call.          *)
(***************************************************************************)
RECURSIVE Flatten(_)
\* the references of all buckets, one after the other
Flatten(categories) ==
    IF categories = <<>> THEN <<>>
    ELSE Head(categories).items \o Flatten(Tail(categories))

Occurrences(seq, x) == Cardinality({k \in DOMAIN seq : seq[k] = x})

\* the positions of the argument list whose item has a non-empty cleaned
\* description
KeptPositions ==
    {k \in DOMAIN call.options :
        CleanDescription(call.before[call.options[k]].description) # ""}

FirstKept == CHOOSE k \in KeptPositions : \A j \in KeptPositions : k <= j

\* C1: every item whose cleaned description is non-empty is in exactly one
\* bucket, once, except the item extracted as the embedded base price, which
\* is in none; so the sizes of the buckets, plus one if an item was extracted,
\* add up to the number of items with a non-empty cleaned description.
C1_EveryItemInOneBucket ==
    call.site # "none" =>
        LET placed == Flatten(call.categories)
        IN  /\ Len(placed) + (IF call.extracted THEN 1 ELSE 0)
                  = Cardinality(KeptPositions)
            /\ \A k \in KeptPositions :
                  Occurrences(placed, call.options[k])
                      = IF call.extracted /\ k = FirstKept THEN 0 ELSE 1
            /\ \A j \in DOMAIN placed :
                  \E k \in KeptPositions : call.options[k] = placed[j]

C1_Witness ==
    /\ call.site = "script"
    /\ call.extracted
    /\ Len(Flatten(call.categories)) >= 1

\* the three conditions of the base-price test, on an item
BasePriceRule(opt) ==
    \/ Contains(Lower(opt.description), "base price")
    \/ Contains(Lower(opt.description), "model")
    \/ (opt.price > 100000 /\ WordCount(opt.description) < 3)

InBucket(name, ref) ==
    \E k \in DOMAIN call.categories :
        /\ call.categories[k].name = name
        /\ \E j \in DOMAIN call.categories[k].items : call.categories[k].items[j] = ref

\* C2: the first cleaned item is extracted and removed if and only if its
\* lowercased description contains "base price" or "model", or its price
\* exceeds 100000 and its description has fewer than 3 words; nothing else
\* is ever removed; a first item "4th Axis" at 50000 is not extracted and is
\* in "Other Options", a first item "Model XYZ" at 150000 is extracted.
C2_BasePriceOnlyFirst ==
    call.site # "none" =>
        LET hit == /\ call.cleaned_all # <<>>
                   /\ BasePriceRule(call.items[Head(call.cleaned_all)])
        IN  /\ call.extracted <=> hit
            /\ call.cleaned_options
                  = IF hit THEN Tail(call.cleaned_all) ELSE call.cleaned_all
            /\ Flatten(call.categories) # <<>> =>
                  \A j \in DOMAIN Flatten(call.categories) :
                      \E k \in DOMAIN call.cleaned_options :
                          call.cleaned_options[k] = Flatten(call.categories)[j]
            /\ call.cleaned_all # <<>> =>
                  LET first == call.items[Head(call.cleaned_all)]
                  IN  /\ (first.description = "4th Axis" /\ first.price = 50000)
                          => /\ ~call.extracted
                             /\ InBucket("Other Options", Head(call.cleaned_all))
                      /\ (first.description = "Model XYZ" /\ first.price = 150000)
                          => /\ call.extracted
                             /\ ~\E j \in DOMAIN Flatten(call.categories) :
                                   Flatten(call.categories)[j] = Head(call.cleaned_all)

\* a first item extracted by the price rule alone, and a later item that
\* passes the test but stays in the list
C2_Witness ==
    /\ call.site = "script"
    /\ call.extracted
    /\ LET first == call.items[Head(call.cleaned_all)]
       IN  /\ ~Contains(Lower(first.description), "model")
           /\ ~Contains(Lower(first.description), "base price")
    /\ call.cleaned_options # <<>>
    /\ BasePriceRule(call.items[Head(call.cleaned_options)])

\* the rules in their order of priority: a rule matches when all the words
\* of one of its alternatives occur in the description
PriorityRules ==
    << [name |-> "Spindle Options",        alts |-> {{"spindle"}}],
       [name |-> "Probing & Measurement",  alts |-> {{"probe"}, {"renishaw"}}],
       [name |-> "Coolant Systems",        alts |-> {{"coolant"}}],
       [name |-> "Table & Pallet Systems", alts |-> {{"table"}, {"pallet"}}],
       [name |-> "Tool Storage",
        alts |-> {{"tool", "storage"}, {"tool", "magazine"}, {"tool", "changer"}}],
       [name |-> "Control Options",        alts |-> {{"control"}}] >>

RuleMatches(r, desc) ==
    \E alt \in PriorityRules[r].alts : \A w \in alt : Contains(desc, w)

FirstMatchingCategory(description) ==
    LET desc == Lower(description)
        hits == {r \in DOMAIN PriorityRules : RuleMatches(r, desc)}
    IN  IF hits = {} THEN "Other Options"
        ELSE PriorityRules[CHOOSE r \in hits : \A q \in hits : r <= q].name

\* C3: every item left after the extraction is in the bucket of the first
\* rule that matches its description, case-insensitively, in the order
\* Spindle > Probing > Coolant > Table & Pallet > Tool Storage > Control >
\* Other, and in no other bucket.
C3_FirstMatchingRule ==
    call.site # "none" =>
        /\ \A k \in DOMAIN call.cleaned_options :
              InBucket(FirstMatchingCategory(
                           call.items[call.cleaned_options[k]].description),
                       call.cleaned_options[k])
        /\ \A k \in DOMAIN call.categories :
              \A j \in DOMAIN call.categories[k].items :
                  call.categories[k].name
                      = FirstMatchingCategory(
                            call.items[call.categories[k].items[j]].description)
        /\ \A k \in DOMAIN call.cleaned_options :
              call.items[call.cleaned_options[k]].description
                      = "tool storage magazine with spindle"
                  => InBucket("Spindle Options", call.cleaned_options[k])

\* an item that matches the Tool Storage rule and the Spindle rule, placed
\* in Spindle Options, next to an item in another bucket
C3_Witness ==
    /\ call.site = "script"
    /\ Len(call.categories) = 2
    /\ \E k \in DOMAIN call.cleaned_options :
          LET desc == Lower(call.items[call.cleaned_options[k]].description)
          IN  /\ RuleMatches(1, desc)
              /\ RuleMatches(5, desc)
              /\ InBucket("Spindle Options", call.cleaned_options[k])

\* C6: the returned base price is 0 exactly when no item was extracted.
C6_ZeroMeansNothingExtracted ==
    call.site # "none" => (call.base_price = 0 <=> ~call.extracted)

\* C7: a call leaves the option items of the catalog as they were loaded.
C7_CatalogUnchanged == items = catalog.optional_options

RECURSIVE StripNanAnywhere(_)
\* every occurrence of "nan", in any case and at any place, removed
StripNanAnywhere(s) ==
    IF s = "" THEN ""
    ELSE IF Len(s) >= 3 /\ Lower(SubSeq(s, 1, 3)) = "nan"
         THEN StripNanAnywhere(SubSeq(s, 4, Len(s)))
         ELSE Head(s) \o StripNanAnywhere(Tail(s))

RECURSIVE KeptRefs(_, _, _)
\* the references of options, from position k on, whose expected
\* description is not empty
KeptRefs(options, expected, k) ==
    IF k > Len(options) THEN <<>>
    ELSE IF expected[k] = "" THEN KeptRefs(options, expected, k + 1)
    ELSE <<options[k]>> \o KeptRefs(options, expected, k + 1)

CleaningAgrees(expected) ==
    /\ call.cleaned_all = KeptRefs(call.options, expected, 1)
    /\ \A k \in DOMAIN call.options :
          call.items[call.options[k]].description = expected[k]

\* C8 as stated: "nan" is stripped case-insensitively and anywhere in the
\* description, the result is trimmed, the items whose description becomes
\* empty are dropped and the order of the others is kept.
C8_StripsNanAnywhere ==
    call.site # "none" =>
        CleaningAgrees([k \in DOMAIN call.options |->
            Strip(StripNanAnywhere(call.before[call.options[k]].description))])

\* the positions of s covered by a lowercase "nan" that is a whole word
NanWordPositions(s) ==
    UNION {{i, i + 1, i + 2} : i \in
        {j \in 1..(Len(s) - 2) :
            /\ SubSeq(s, j, j + 2) = "nan"
            /\ (j = 1 \/ ~IsWordChar(CharAt(s, j - 1)))
            /\ (j + 2 = Len(s) \/ ~IsWordChar(CharAt(s, j + 3)))}}

RECURSIVE WithoutPositions(_, _, _)
WithoutPositions(s, i, drop) ==
    IF i > Len(s) THEN ""
    ELSE IF i \in drop THEN WithoutPositions(s, i + 1, drop)
    ELSE CharAt(s, i) \o WithoutPositions(s, i + 1, drop)

\* C8 amended: only a lowercase "nan" that stands as a whole word is
\* stripped; the result is trimmed at both ends (inner whitespace is kept as
\* it is), the items whose description becomes empty are dropped and the
\* order of the others is kept.
C8_StripsWholeWordLowercaseNan ==
    call.site # "none" =>
        CleaningAgrees([k \in DOMAIN call.options |->
            LET d == call.before[call.options[k]].description
            IN  Strip(WithoutPositions(d, 1, NanWordPositions(d)))])

\* "NaN" kept as it is next to an item whose whole-word "nan" was stripped
C8_Witness ==
    /\ call.site = "script"
    /\ \E k \in DOMAIN call.options :
          /\ call.before[call.options[k]].description = "NaN"
          /\ call.items[call.options[k]].description = "NaN"
          /\ \E j \in DOMAIN call.cleaned_all : call.cleaned_all[j] = call.options[k]
    /\ \E k \in DOMAIN call.options :
          /\ Contains(call.before[call.options[k]].description, "nan")
          /\ ~Contains(call.items[call.options[k]].description, "nan")
          /\ call.items[call.options[k]].description # ""

(***************************************************************************)
(* Properties of clean_standard_options.                                   *)
(***************************************************************************)
\* C9: cleaning the cleaned list again returns it unchanged.
C9_Idempotent == norm_pc = "twice" => std_twice = std_once

\* a raw value that the first pass changed, and the second pass done
C9_Witness ==
    /\ norm_pc = "twice"
    /\ std_once # <<>>
    /\ Len(std_raw) = Len(std_once)
    /\ std_raw[1] # Str(std_once[1])

(***************************************************************************)
(* Properties of the page.                                                 *)
(***************************************************************************)
\* C4: the discount comes from the first of desired final price, percent,
\* flat amount that is above 0, and from the catalog when none is; the
\* controls after that one have no effect.
C4_DiscountPriority ==
    page.run =>
        /\ desired_price > 0 =>
              page.discount = IF page.base_price - desired_price > 0
                              THEN page.base_price - desired_price ELSE 0
        /\ (desired_price = 0 /\ percent_discount > 0) =>
              page.discount * 100 = percent_discount * page.base_price
        /\ (desired_price = 0 /\ percent_discount = 0 /\ flat_discount > 0) =>
              page.discount = flat_discount
        /\ (desired_price = 0 /\ percent_discount = 0 /\ flat_discount = 0) =>
              page.discount = catalog.discount
        /\ (/\ page.base_price = 100000 /\ desired_price = 90000
            /\ percent_discount = 50 /\ flat_discount = 10000) =>
              page.discount = 10000

C4_Witness ==
    /\ page.run
    /\ page.base_price = 100000 /\ desired_price = 90000
    /\ percent_discount = 50 /\ flat_discount = 10000
    /\ page.discount = 10000

\* the items whose checkbox is shown and checked
CheckedRefs ==
    UNION {{page.grouped_options[k].items[i] :
               i \in {j \in DOMAIN page.grouped_options[k].items :
                         CheckboxKey(page.grouped_options[k].name, j - 1) \in checked}}
              : k \in DOMAIN page.grouped_options}

RECURSIVE TotalPrice(_)
TotalPrice(refs) ==
    IF refs = {} THEN 0
    ELSE LET r == CHOOSE x \in refs : TRUE
         IN  page.items[r].price + TotalPrice(refs \ {r})

\* C5: the final price is the base price less the discount plus the price
\* of every selected upgrade counted once, and it is the total the document
\* is given.
C5_FinalPrice ==
    page.run =>
        /\ page.custom_price
              = page.base_price - page.discount + TotalPrice(CheckedRefs)
        /\ page.quote.generated => page.quote.total = page.custom_price
        /\ (/\ page.base_price = 200000 /\ page.discount = 0
            /\ {page.items[r].price : r \in CheckedRefs} = {5000, 3000}
            /\ Cardinality(CheckedRefs) = 2) =>
              page.custom_price = 208000

C5_Witness ==
    /\ page.run
    /\ page.quote.generated
    /\ page.base_price = 200000 /\ page.discount = 0
    /\ Cardinality(CheckedRefs) = 2
    /\ page.quote.total = 208000

\* the references of the lines the document prints
PrintedRefs ==
    Flatten([k \in DOMAIN page.quote.upgrades |->
                [items |-> [i \in DOMAIN page.quote.upgrades[k].lines |->
                               page.quote.upgrades[k].lines[i].ref]]])

\* C10: every selected upgrade is printed exactly once in the document.
C10_EverySelectedUpgradePrinted ==
    (page.run /\ page.quote.generated) =>
        \A k \in DOMAIN page.selected_addons :
            Occurrences(PrintedRefs, page.selected_addons[k]) = 1

====
